---- MODULE Spec2Model ----
(***************************************************************************)
(* mail_agent: the admin registration / bearer-token guard of              *)
(* app/routers/auth.py, the guarded employee handlers and the background   *)
(* mail dispatch of app/routers/employees.py, and the unguarded handlers   *)
(* with the "M" + 5 digits id scheme of app/main.py.                       *)
(*                                                                         *)
(* The database is the tables `admins` and `employees`.  A table has the   *)
(* columns the handlers read and write; its constraints are the ones       *)
(* app/models.py and the alembic revision declare (admin.name and          *)
(* admin.email unique, employee.phone_no unique, the salary_range check;   *)
(* employee.email is added nullable and without a unique constraint).      *)
(* app/models.py also declares admin.emp_code NOT NULL, which create_admin *)
(* never sets: `adminSchema` says whether the deployed table has it.       *)
(*                                                                         *)
(* Time is counted in whole minutes (python-jose compares exp and now in    *)
(* whole seconds).  A request occupies a slot of `Requests` from its        *)
(* arrival until its response and its background task are over.  The       *)
(* handlers that check and then insert (create_admin, create_employee of   *)
(* both files) are cut in two steps at the commit, so that two of them     *)
(* interleave as they do across worker threads and worker processes;       *)
(* update and delete are one transaction step each.                        *)
(***************************************************************************)
EXTENDS Integers, Sequences, FiniteSets, TLC

-----------------------------------------------------------------------------
(* Bounds of the model *)

MaxClock == 32
MaxTokens == 1
MaxLoginAt == 1
MaxId == 2
MaxCreates == 3

(* Program constants *)

ACCESS_TOKEN_EXPIRE_MINUTES == 30
BcryptMaxBytes == 72
SalaryGt == 10000
SalaryLt == 500000
MainSalaryGt == 0
MainSalaryLt == 500000
SalaryCheckMin == 10000
SalaryCheckMax == 500000
IdDigits == 5

(* get_current_user raises HTTPException(401); admin ids start at 1 *)
Unauthorized == 0

-----------------------------------------------------------------------------
(* Inputs *)

Requests == {"r1", "r2"}

Names == {"mayur", "asha"}
AdminEmails == {"m@x.com", "a@x.com"}
Passwords == {"secret1", "a-73-byte-passphrase"}

Phones == {"9998887777", "9998887778"}
Emails == {"asha@x.com", "ravi@x.com"}
Salaries == {5000, 10000, 60000, 500000}

VARIABLES
    clock,        \* datetime.now(timezone.utc), in minutes
    adminSchema,  \* "emp_code": admin.emp_code NOT NULL exists; "plain": it does not
    admins,       \* the admin table
    nextAdminId,  \* admin.id autoincrement
    tokens,       \* the tokens create_access_token has signed
    employees,    \* the employee table
    nextId,       \* employee.id autoincrement (routers/employees.py)
    pc,           \* per request: "idle", "insert", "responded", "done"
    rq,           \* per request: the operation and its inputs
    resp,         \* per request: the HTTP status answered, 0 before the answer
    task,         \* per request: its BackgroundTasks entry
    issued        \* history: the ids successful main.py creates returned

vars == <<clock, adminSchema, admins, nextAdminId, tokens, employees, nextId,
          pc, rq, resp, task, issued>>

-----------------------------------------------------------------------------
(* Values *)

NoBody == [name |-> "", email |-> "", password |-> "", salary |-> 0,
           phone_no |-> "", is_active |-> FALSE, fields_ok |-> TRUE]

(* No Authorization header; a token not signed with SECRET_KEY *)
NoToken == [sub |-> "", id |-> 0, exp |-> 0, iat |-> 0, sig |-> "absent"]
ForgedToken == [sub |-> "mayur", id |-> 1, exp |-> MaxClock + ACCESS_TOKEN_EXPIRE_MINUTES,
                iat |-> 0, sig |-> "bad"]

(* active: the ids of the rows send_bulk_email's query returned *)
NoRequest == [op |-> "none", tok |-> NoToken, id |-> 0, code |-> <<>>, body |-> NoBody,
              active |-> {}]

NoTask == [kind |-> "none", stage |-> "none", to |-> <<>>, gen |-> "none", log |-> <<>>]

Free(r) == pc[r] \in {"idle", "done"}

(* What is kept of a request once its handler has returned *)
Summary(request) ==
    [NoRequest EXCEPT !.op = request.op, !.tok = request.tok, !.active = request.active]

(* The request r is answered with `code` and is over *)
Answer(r, request, code) ==
    /\ pc' = [pc EXCEPT ![r] = "done"]
    /\ rq' = [rq EXCEPT ![r] = Summary(request)]
    /\ resp' = [resp EXCEPT ![r] = code]
    /\ task' = [task EXCEPT ![r] = NoTask]

-----------------------------------------------------------------------------
(* app/routers/auth.py *)

ByteLen(password) == IF password = "a-73-byte-passphrase" THEN 73 ELSE Len(password)

Condense(password) ==
    IF ByteLen(password) > BcryptMaxBytes THEN <<"sha256", password>> ELSE <<"plain", password>>

hash_password(password) == <<"bcrypt", Condense(password)>>

verify_password(plain_password, hashed_password) ==
    <<"bcrypt", Condense(plain_password)>> = hashed_password

(* The rows db.query(Admin).filter(Admin.name == name) finds whose password
   verifies: empty is "return None" *)
authenticate_admin(name, password) ==
    {a \in admins : a.name = name /\ verify_password(password, a.hashed_password)}

create_access_token_no_delta(username, user_id, expires_delta) ==
    [sub |-> username, id |-> user_id, exp |-> clock, iat |-> clock, sig |-> "ok"]

(* iat is not a claim of the payload: it records when the token was signed *)
create_access_token(username, user_id, expires_delta) ==
    [sub |-> username, id |-> user_id, exp |-> clock + expires_delta,
     iat |-> clock, sig |-> "ok"]

(* jwt.decode: the signature verifies and not exp < now; sub and id present *)
JwtDecodes(token) ==
    /\ token.sig = "ok"
    /\ ~(token.exp < clock)
    /\ token.sub # "" /\ token.id # 0

get_current_user(token) ==
    IF ~JwtDecodes(token) THEN Unauthorized
    ELSE IF \E a \in admins : a.id = token.id THEN token.id
    ELSE Unauthorized

Bearers == {NoToken, ForgedToken} \cup tokens

CreateAdminRequest(name, email, password) ==
    [NoBody EXCEPT !.name = name, !.email = email, !.password = password,
                   !.fields_ok = email \in AdminEmails]

AdminBodies ==
    {CreateAdminRequest("mayur", "m@x.com", "secret1"),
     CreateAdminRequest("asha", "a@x.com", "a-73-byte-passphrase"),
     CreateAdminRequest("asha", "m@x.com", "secret1"),
     CreateAdminRequest("mayur", "not-an-email", "secret1")}

(* create_admin up to the existence query *)
CreateAdminBegin(r, body) ==
    /\ Free(r)
    /\ LET request == [NoRequest EXCEPT !.op = "create_admin", !.body = body] IN
       IF ~body.fields_ok THEN Answer(r, request, 422)
       ELSE IF admins # {} THEN Answer(r, request, 400)
       ELSE /\ pc' = [pc EXCEPT ![r] = "insert"]
            /\ rq' = [rq EXCEPT ![r] = request]
            /\ resp' = [resp EXCEPT ![r] = 0]
            /\ task' = [task EXCEPT ![r] = NoTask]
    /\ UNCHANGED <<clock, adminSchema, admins, nextAdminId, tokens, employees, nextId, issued>>

(* The constraints of the admin table on db.commit() *)
AdminIntegrityError(body) ==
    \/ adminSchema = "emp_code"
    \/ \E a \in admins : a.name = body.name \/ a.email = body.email

(* create_admin from db.add to the return *)
CreateAdminCommit(r) ==
    /\ pc[r] = "insert" /\ rq[r].op = "create_admin"
    /\ IF AdminIntegrityError(rq[r].body)
       THEN /\ Answer(r, rq[r], 500)
            /\ UNCHANGED <<admins, nextAdminId>>
       ELSE /\ admins' = admins \cup
                   {[id |-> nextAdminId, name |-> rq[r].body.name, email |-> rq[r].body.email,
                     hashed_password |-> hash_password(rq[r].body.password)]}
            /\ nextAdminId' = nextAdminId + 1
            /\ Answer(r, rq[r], 201)
    /\ UNCHANGED <<clock, adminSchema, tokens, employees, nextId, issued>>

(* login_for_access_token; a failed login answers 401 and changes nothing *)
Login(username, password) ==
    /\ Cardinality(tokens) < MaxTokens
    /\ clock <= MaxLoginAt
    /\ \E user \in authenticate_admin(username, password) :
          tokens' = tokens \cup
              {create_access_token(user.name, user.id, ACCESS_TOKEN_EXPIRE_MINUTES)}
    /\ UNCHANGED <<clock, adminSchema, admins, nextAdminId, employees, nextId,
                   pc, rq, resp, task, issued>>

Tick ==
    /\ clock < MaxClock
    /\ clock' = clock + 1
    /\ UNCHANGED <<adminSchema, admins, nextAdminId, tokens, employees, nextId,
                   pc, rq, resp, task, issued>>

-----------------------------------------------------------------------------
(* app/routers/employees.py *)

(* The request bodies tried: every phone_no, email and is_active with a salary
   inside the range, every salary of Salaries, and one body whose text fields
   break a length or format constraint *)
BaseBody == [NoBody EXCEPT !.salary = 60000, !.phone_no = "9998887777",
                           !.email = "asha@x.com", !.is_active = TRUE]

EmployeeBodies ==
    {[BaseBody EXCEPT !.phone_no = p, !.email = e, !.is_active = a] :
        p \in Phones, e \in Emails, a \in BOOLEAN}
    \cup {[BaseBody EXCEPT !.salary = s] : s \in Salaries}
    \cup {[BaseBody EXCEPT !.fields_ok = FALSE]}

(* EmployeeRequest: fields_ok stands for the length and format constraints of
   name, designation, phone_no, address and email *)
EmployeeRequest(body) ==
    body.fields_ok /\ body.salary > SalaryGt /\ body.salary < SalaryLt

(* The row of the employee table; name, designation and address are stored as
   given and read by nothing but the welcome prompt *)
Employee(id, body) ==
    [id |-> id, salary |-> body.salary, phone_no |-> body.phone_no,
     email |-> body.email, is_active |-> body.is_active]

(* The constraints of the employee table on db.commit(): the primary key,
   unique phone_no, the salary_range check *)
EmployeeIntegrityError(row, others) ==
    \/ \E e \in others : e.id = row.id \/ e.phone_no = row.phone_no
    \/ ~(row.salary >= SalaryCheckMin /\ row.salary <= SalaryCheckMax)

InFlight(op) == Cardinality({r \in Requests : pc[r] = "insert" /\ rq[r].op = op})

(* The rows of S by ascending id, as the query returns them *)
RECURSIVE ById(_)
ById(S) ==
    IF S = {} THEN <<>>
    ELSE LET first == CHOOSE e \in S : \A f \in S : e.id <= f.id
         IN <<first>> \o ById(S \ {first})

(* The employee objects a task holds, by id *)
Recipient(e) == e.id

Scheduled(kind, rows) ==
    [kind |-> kind, stage |-> "queued",
     to |-> [i \in 1..Len(rows) |-> Recipient(rows[i])], gen |-> "none", log |-> <<>>]

(* The handler returns with `code` and its background task is scheduled *)
Respond(r, request, code, t) ==
    /\ pc' = [pc EXCEPT ![r] = "responded"]
    /\ rq' = [rq EXCEPT ![r] = Summary(request)]
    /\ resp' = [resp EXCEPT ![r] = code]
    /\ task' = [task EXCEPT ![r] = t]

(* create_employee up to the email query *)
CreateEmployeeBegin(r, token, body) ==
    /\ Free(r)
    /\ LET request == [NoRequest EXCEPT !.op = "create", !.tok = token, !.body = body] IN
       IF get_current_user(token) = Unauthorized THEN Answer(r, request, 401)
       ELSE IF ~EmployeeRequest(body) THEN Answer(r, request, 422)
       ELSE IF \E e \in employees : e.email = body.email THEN Answer(r, request, 400)
       ELSE /\ nextId + InFlight("create") <= MaxId
            /\ pc' = [pc EXCEPT ![r] = "insert"]
            /\ rq' = [rq EXCEPT ![r] = request]
            /\ resp' = [resp EXCEPT ![r] = 0]
            /\ task' = [task EXCEPT ![r] = NoTask]
    /\ UNCHANGED <<clock, adminSchema, admins, nextAdminId, tokens, employees, nextId, issued>>

(* create_employee from db.add to the return *)
CreateEmployeeCommit(r) ==
    /\ pc[r] = "insert" /\ rq[r].op = "create"
    /\ LET new_employee == Employee(nextId, rq[r].body) IN
       IF EmployeeIntegrityError(new_employee, employees)
       THEN /\ Answer(r, rq[r], 500)
            /\ UNCHANGED <<employees, nextId>>
       ELSE /\ employees' = employees \cup {new_employee}
            /\ nextId' = nextId + 1
            /\ Respond(r, rq[r], 201,
                       Scheduled("welcome", <<new_employee>>))
    /\ UNCHANGED <<clock, adminSchema, admins, nextAdminId, tokens, issued>>

UpdateEmployee(r, token, id, body) ==
    /\ Free(r)
    /\ LET request == [NoRequest EXCEPT !.op = "update", !.tok = token, !.id = id,
                                        !.body = body]
           found == {e \in employees : e.id = id}
           row == Employee(id, body)
       IN
       IF get_current_user(token) = Unauthorized
       THEN Answer(r, request, 401) /\ UNCHANGED employees
       ELSE IF ~EmployeeRequest(body)
       THEN Answer(r, request, 422) /\ UNCHANGED employees
       ELSE IF found = {}
       THEN Answer(r, request, 404) /\ UNCHANGED employees
       ELSE IF EmployeeIntegrityError(row, employees \ found)
       THEN Answer(r, request, 500) /\ UNCHANGED employees
       ELSE /\ employees' = (employees \ found) \cup {row}
            /\ Answer(r, request, 200)
    /\ UNCHANGED <<clock, adminSchema, admins, nextAdminId, tokens, nextId, issued>>

DeleteEmployee(r, token, id) ==
    /\ Free(r)
    /\ LET request == [NoRequest EXCEPT !.op = "delete", !.tok = token, !.id = id]
           found == {e \in employees : e.id = id}
       IN
       IF get_current_user(token) = Unauthorized
       THEN Answer(r, request, 401) /\ UNCHANGED employees
       ELSE IF found = {}
       THEN Answer(r, request, 404) /\ UNCHANGED employees
       ELSE /\ employees' = employees \ found
            /\ Answer(r, request, 204)
    /\ UNCHANGED <<clock, adminSchema, admins, nextAdminId, tokens, nextId, issued>>

SendEmailToEmployee(r, token, id) ==
    /\ Free(r)
    /\ LET request == [NoRequest EXCEPT !.op = "send_email", !.tok = token, !.id = id]
           found == {e \in employees : e.id = id}
       IN
       IF get_current_user(token) = Unauthorized THEN Answer(r, request, 401)
       ELSE IF found = {} THEN Answer(r, request, 404)
       ELSE Respond(r, request, 200, Scheduled("single", ById(found)))
    /\ UNCHANGED <<clock, adminSchema, admins, nextAdminId, tokens, employees, nextId, issued>>

(* send_bulk_email without the "if not employees" return *)
BulkScheduleAlways(r, request, active) ==
    Respond(r, request, 200, Scheduled("bulk", ById(active)))

(* send_bulk_email after the query of the active employees *)
BulkSchedule(r, request, active) ==
    IF active = {} THEN Answer(r, request, 404)
    ELSE Respond(r, request, 200, Scheduled("bulk", ById(active)))

SendBulkEmail(r, token) ==
    /\ Free(r)
    /\ LET request == [NoRequest EXCEPT !.op = "send_bulk", !.tok = token]
           active == {e \in employees : e.is_active}
       IN
       IF get_current_user(token) = Unauthorized THEN Answer(r, request, 401)
       ELSE BulkSchedule(r, [request EXCEPT !.active = {e.id : e \in active}], active)
    /\ UNCHANGED <<clock, adminSchema, admins, nextAdminId, tokens, employees, nextId, issued>>

-----------------------------------------------------------------------------
(* The background tasks of app/routers/employees.py.  Starlette runs the task
   of a request after its response has been sent; generate_email_content and
   send_email either return or raise. *)

(* A failed send ends background_bulk_task, as it would without the try
   around send_email *)
AfterSendAbort(t, ok) ==
    LET log == Append(t.log, [id |-> t.to[Len(t.log) + 1], ok |-> ok]) IN
    [t EXCEPT !.log = log,
              !.stage = IF t.kind = "bulk" /\ ok /\ Len(log) < Len(t.to)
                        THEN "sending" ELSE "done"]

(* The task after one call of send_email: send_welcome_email and
   background_email_task make one call, background_bulk_task goes on to the
   next employee whether or not the call raised *)
AfterSend(t, ok) ==
    LET log == Append(t.log, [id |-> t.to[Len(t.log) + 1], ok |-> ok]) IN
    [t EXCEPT !.log = log,
              !.stage = IF t.kind = "bulk" /\ Len(log) < Len(t.to)
                        THEN "sending" ELSE "done"]

(* A failed welcome email undoes the create *)
DispatchRollsBack(r, failed) ==
    IF failed /\ task[r].kind = "welcome"
    THEN /\ employees' = {e \in employees : e.id # task[r].to[1]}
         /\ resp' = [resp EXCEPT ![r] = 500]
         /\ UNCHANGED nextId
    ELSE UNCHANGED <<employees, nextId, resp>>

(* What a step of a task does to the table and to the response already
   sent: "except Exception as e: print(...)" *)
DispatchOutcome(r, failed) ==
    UNCHANGED <<employees, nextId, resp>>

TaskStep(r, t) ==
    /\ task' = [task EXCEPT ![r] = t]
    /\ pc' = [pc EXCEPT ![r] = IF t.stage = "done" THEN "done" ELSE "responded"]
    /\ UNCHANGED rq

(* body = generate_email_content(...) *)
GenerateContent(r, ok) ==
    /\ pc[r] = "responded" /\ task[r].stage = "queued"
    /\ TaskStep(r, [task[r] EXCEPT
                      !.gen = IF ok THEN "ok" ELSE "failed",
                      !.stage = IF ok /\ Len(task[r].to) > 0 THEN "sending" ELSE "done"])
    /\ DispatchOutcome(r, ~ok)
    /\ UNCHANGED <<clock, adminSchema, admins, nextAdminId, tokens, issued>>

(* send_email(employee.email, subject, body) *)
SendMail(r, ok) ==
    /\ pc[r] = "responded" /\ task[r].stage = "sending"
    /\ TaskStep(r, AfterSend(task[r], ok))
    /\ DispatchOutcome(r, ~ok)
    /\ UNCHANGED <<clock, adminSchema, admins, nextAdminId, tokens, issued>>

-----------------------------------------------------------------------------
(* app/main.py: no guard, string ids *)

RECURSIVE DigitsOf(_)
DigitsOf(n) == IF n < 10 THEN <<n>> ELSE Append(DigitsOf(n \div 10), n % 10)

RECURSIVE ZeroPad(_, _)
ZeroPad(digits, width) ==
    IF Len(digits) >= width THEN digits ELSE ZeroPad(<<0>> \o digits, width)

(* f"{new_number:05d}", the "M" left out *)
Format05d(n) == ZeroPad(DigitsOf(n), IdDigits)

(* int(last_employee.id[1:]) *)
RECURSIVE ParseInt(_)
ParseInt(digits) ==
    IF digits = <<>> THEN 0
    ELSE 10 * ParseInt(SubSeq(digits, 1, Len(digits) - 1)) + digits[Len(digits)]

(* The order of strings order_by(Employee.id.desc()) sorts by *)
RECURSIVE StrLess(_, _)
StrLess(a, b) ==
    IF a = <<>> THEN b # <<>>
    ELSE IF b = <<>> THEN FALSE
    ELSE IF Head(a) # Head(b) THEN Head(a) < Head(b)
    ELSE StrLess(Tail(a), Tail(b))

generate_employee_id ==
    IF employees = {} THEN <<0, 0, 0, 0, 1>>
    ELSE LET last_employee == CHOOSE e \in employees :
                                 \A f \in employees : ~StrLess(e.id, f.id)
         IN Format05d(ParseInt(last_employee.id) + 1)

(* main.py's EmployeeRequest has no email *)
MainBodies ==
    {[BaseBody EXCEPT !.email = "", !.phone_no = p, !.is_active = a] :
        p \in Phones, a \in BOOLEAN}
    \cup {[BaseBody EXCEPT !.email = "", !.salary = s] : s \in Salaries}
    \cup {[BaseBody EXCEPT !.email = "", !.fields_ok = FALSE]}

MainCodes == {Format05d(n) : n \in 1..MaxCreates}

MainEmployeeRequest(body) ==
    body.fields_ok /\ body.salary > MainSalaryGt /\ body.salary < MainSalaryLt

(* create_employee up to new_id = generate_employee_id(db) *)
MainCreateBegin(r, body) ==
    /\ Free(r)
    /\ LET request == [NoRequest EXCEPT !.op = "main_create", !.body = body] IN
       IF ~MainEmployeeRequest(body) THEN Answer(r, request, 422)
       ELSE /\ Len(issued) + InFlight("main_create") < MaxCreates
            /\ pc' = [pc EXCEPT ![r] = "insert"]
            /\ rq' = [rq EXCEPT ![r] = [request EXCEPT !.code = generate_employee_id]]
            /\ resp' = [resp EXCEPT ![r] = 0]
            /\ task' = [task EXCEPT ![r] = NoTask]
    /\ UNCHANGED <<clock, adminSchema, admins, nextAdminId, tokens, employees, nextId, issued>>

(* create_employee from db.add to the return *)
MainCreateCommit(r) ==
    /\ pc[r] = "insert" /\ rq[r].op = "main_create"
    /\ LET employee == Employee(rq[r].code, rq[r].body) IN
       IF EmployeeIntegrityError(employee, employees)
       THEN /\ Answer(r, rq[r], 500)
            /\ UNCHANGED <<employees, issued>>
       ELSE /\ employees' = employees \cup {employee}
            /\ issued' = Append(issued, rq[r].code)
            /\ Answer(r, rq[r], 201)
    /\ UNCHANGED <<clock, adminSchema, admins, nextAdminId, tokens, nextId>>

MainUpdate(r, code, body) ==
    /\ Free(r)
    /\ LET request == [NoRequest EXCEPT !.op = "main_update", !.code = code, !.body = body]
           found == {e \in employees : e.id = code}
           row == Employee(code, body)
       IN
       IF ~MainEmployeeRequest(body)
       THEN Answer(r, request, 422) /\ UNCHANGED employees
       ELSE IF found = {}
       THEN Answer(r, request, 404) /\ UNCHANGED employees
       ELSE IF EmployeeIntegrityError(row, employees \ found)
       THEN Answer(r, request, 500) /\ UNCHANGED employees
       ELSE /\ employees' = (employees \ found) \cup {row}
            /\ Answer(r, request, 204)
    /\ UNCHANGED <<clock, adminSchema, admins, nextAdminId, tokens, nextId, issued>>

MainDelete(r, code) ==
    /\ Free(r)
    /\ LET request == [NoRequest EXCEPT !.op = "main_delete", !.code = code]
           found == {e \in employees : e.id = code}
       IN
       IF found = {}
       THEN Answer(r, request, 404) /\ UNCHANGED employees
       ELSE /\ employees' = employees \ found
            /\ Answer(r, request, 204)
    /\ UNCHANGED <<clock, adminSchema, admins, nextAdminId, tokens, nextId, issued>>

-----------------------------------------------------------------------------
(* Specifications *)

Idle ==
    /\ pc = [r \in Requests |-> "idle"]
    /\ rq = [r \in Requests |-> NoRequest]
    /\ resp = [r \in Requests |-> 0]
    /\ task = [r \in Requests |-> NoTask]
    /\ employees = {}
    /\ nextId = 1
    /\ issued = <<>>

(* auth.py on an empty database, with one guarded route *)
InitAuth ==
    /\ Idle
    /\ clock = 0
    /\ adminSchema \in {"emp_code", "plain"}
    /\ admins = {}
    /\ nextAdminId = 1
    /\ tokens = {}

NextAuth ==
    \/ \E r \in Requests, body \in AdminBodies : CreateAdminBegin(r, body)
    \/ \E r \in Requests : CreateAdminCommit(r)
    \/ \E username \in Names, password \in Passwords : Login(username, password)
    \/ Tick
    \/ \E r \in Requests, token \in Bearers : SendBulkEmail(r, token)

SpecAuth == InitAuth /\ [][NextAuth]_vars

(* routers/employees.py once the admin "mayur" is registered and has logged in
   at minute 0, the token still good or just expired *)
TheAdmin == [id |-> 1, name |-> "mayur", email |-> "m@x.com",
             hashed_password |-> hash_password("secret1")]

Init ==
    /\ Idle
    /\ clock \in {0, ACCESS_TOKEN_EXPIRE_MINUTES + 1}
    /\ adminSchema = "plain"
    /\ admins = {TheAdmin}
    /\ nextAdminId = 2
    /\ tokens = {[sub |-> "mayur", id |-> 1, exp |-> ACCESS_TOKEN_EXPIRE_MINUTES,
                  iat |-> 0, sig |-> "ok"]}

(* The guard answers 401 before the path and the body are read: one path and
   one body stand for all of them under a bearer it refuses *)
BodiesWith(token) ==
    IF get_current_user(token) = Unauthorized THEN {BaseBody} ELSE EmployeeBodies

IdsWith(token) ==
    IF get_current_user(token) = Unauthorized THEN {1} ELSE 1..MaxId

Next ==
    \/ \E r \in Requests, token \in Bearers : \E body \in BodiesWith(token) :
          CreateEmployeeBegin(r, token, body)
    \/ \E r \in Requests : CreateEmployeeCommit(r)
    \/ \E r \in Requests, token \in Bearers :
          \E id \in IdsWith(token), body \in BodiesWith(token) :
             UpdateEmployee(r, token, id, body)
    \/ \E r \in Requests, token \in Bearers : \E id \in IdsWith(token) :
          DeleteEmployee(r, token, id)
    \/ \E r \in Requests, token \in Bearers : \E id \in IdsWith(token) :
          SendEmailToEmployee(r, token, id)
    \/ \E r \in Requests, token \in Bearers : SendBulkEmail(r, token)
    \/ \E r \in Requests, ok \in BOOLEAN : GenerateContent(r, ok)
    \/ \E r \in Requests, ok \in BOOLEAN : SendMail(r, ok)

Spec == Init /\ [][Next]_vars

(* app/main.py on an empty database *)
InitMain ==
    /\ Idle
    /\ clock = 0
    /\ adminSchema = "plain"
    /\ admins = {}
    /\ nextAdminId = 1
    /\ tokens = {}

NextMain ==
    \/ \E r \in Requests, body \in MainBodies : MainCreateBegin(r, body)
    \/ \E r \in Requests : MainCreateCommit(r)
    \/ \E r \in Requests, code \in MainCodes, body \in MainBodies : MainUpdate(r, code, body)
    \/ \E r \in Requests, code \in MainCodes : MainDelete(r, code)

SpecMain == InitMain /\ [][NextMain]_vars

(* The welcome and bulk mail of routers/employees.py: the handlers that make
   rows, remove them and schedule mail, and the tasks *)
NextMail ==
    \/ \E r \in Requests, token \in Bearers : \E body \in BodiesWith(token) :
          CreateEmployeeBegin(r, token, body)
    \/ \E r \in Requests : CreateEmployeeCommit(r)
    \/ \E r \in Requests, token \in Bearers : \E id \in IdsWith(token) :
          DeleteEmployee(r, token, id)
    \/ \E r \in Requests, token \in Bearers : SendBulkEmail(r, token)
    \/ \E r \in Requests, ok \in BOOLEAN : GenerateContent(r, ok)
    \/ \E r \in Requests, ok \in BOOLEAN : SendMail(r, ok)

SpecMail == Init /\ [][NextMail]_vars

(* routers/employees.py with one request at a time *)
OneRequest == {"r1"}

NextSeq ==
    \/ \E r \in OneRequest, token \in Bearers : \E body \in BodiesWith(token) :
          CreateEmployeeBegin(r, token, body)
    \/ \E r \in OneRequest : CreateEmployeeCommit(r)
    \/ \E r \in OneRequest, token \in Bearers :
          \E id \in IdsWith(token), body \in BodiesWith(token) :
             UpdateEmployee(r, token, id, body)
    \/ \E r \in OneRequest, token \in Bearers : \E id \in IdsWith(token) :
          DeleteEmployee(r, token, id)
    \/ \E r \in OneRequest, token \in Bearers : \E id \in IdsWith(token) :
          SendEmailToEmployee(r, token, id)
    \/ \E r \in OneRequest, token \in Bearers : SendBulkEmail(r, token)
    \/ \E r \in OneRequest, ok \in BOOLEAN : GenerateContent(r, ok)
    \/ \E r \in OneRequest, ok \in BOOLEAN : SendMail(r, ok)

SpecSeq == Init /\ [][NextSeq]_vars

-----------------------------------------------------------------------------
(* Properties *)

(* The step is create_employee's commit in slot r *)
CommitStep(r) ==
    /\ pc[r] = "insert" /\ rq[r].op = "create"
    /\ pc'[r] # "insert"

(* The step is a step of the welcome task of slot r *)
WelcomeStep(r) ==
    /\ task[r].kind = "welcome" /\ task'[r].kind = "welcome"
    /\ task'[r] # task[r]

RECURSIVE Range(_)
Range(seq) == IF seq = <<>> THEN {} ELSE {Head(seq)} \cup Range(Tail(seq))

C2_MutationsPassTheGuard ==
    \A r \in Requests :
        (rq[r].op # "none" /\ rq[r].op # "create_admin"
            /\ (resp[r] \in {200, 201, 204} \/ task[r].kind # "none"))
        => get_current_user(rq[r].tok) # Unauthorized

(* C3: a token signed at minute t expires at t + 30; at any clock later than
   t + 30 the guard refuses it, and up to its expiry the guard resolves it to
   the admin it names; a request that showed a signed token and got 401 showed
   it after its expiry. *)
C3_TokenExpiry ==
    /\ \A t \in tokens :
         /\ t.exp = t.iat + 30
         /\ clock > t.iat + 30 => get_current_user(t) = Unauthorized
         /\ clock <= t.iat + 30 =>
               /\ get_current_user(t) = t.id
               /\ \E a \in admins : a.id = t.id /\ a.name = t.sub
    /\ \A r \in Requests :
         (rq[r].tok \in tokens /\ resp[r] = 401) => clock > rq[r].tok.iat + 30

(* The same token let a request through before its expiry and was refused 31
   minutes after it was signed *)
C3_Witness ==
    \E r1, r2 \in Requests :
        /\ rq[r1].tok \in tokens /\ rq[r2].tok = rq[r1].tok
        /\ resp[r1] = 404 /\ resp[r2] = 401
        /\ clock = rq[r1].tok.iat + 31

(* C4: every stored row has a salary in [10000, 500000], and a create whose
   salary is outside that range is rejected before persistence: no request
   that passed validation and is about to db.add carries such a salary. *)
C4_SalaryRejectedBeforePersistence ==
    /\ \A e \in employees : e.salary >= 10000 /\ e.salary <= 500000
    /\ \A r \in Requests :
         pc[r] = "insert" /\ rq[r].op \in {"create", "main_create"}
         => rq[r].body.salary >= 10000 /\ rq[r].body.salary <= 500000

(* C5: a create that commits while a row of the table holds its phone_no or
   its email fails with an error status, leaves
   the table as it was and schedules no welcome email, so that of two
   concurrent creates with one phone_no or email at most one persists. *)
C5_DuplicateCreateConflicts ==
    [][\A r \in Requests :
          (/\ CommitStep(r)
           /\ \E e \in employees : \/ e.phone_no = rq[r].body.phone_no
                                   \/ e.email = rq[r].body.email)
          => /\ resp'[r] >= 400
             /\ employees' = employees
             /\ task'[r] = NoTask]_vars

(* C6: a send-bulk-email request that passed the guard and found no active
   employee is answered 404 and has no background task: nothing is generated
   and nothing is sent for it; a bulk task that exists has a recipient, and
   only a request with a task waits for background work. *)
C6_BulkWithoutActive ==
    \A r \in Requests :
        /\ (rq[r].op = "send_bulk" /\ resp[r] # 401 /\ rq[r].active = {})
           => (resp[r] = 404 /\ pc[r] = "done" /\ task[r] = NoTask)
        /\ (rq[r].op = "send_bulk" /\ resp[r] = 404) => task[r] = NoTask
        /\ task[r].kind = "bulk" => (Len(task[r].to) >= 1 /\ resp[r] = 200)
        /\ task[r].kind = "none" => pc[r] # "responded"

(* Bulk was answered 404 while the table held rows, all of them inactive *)
C6_Witness ==
    \E r \in Requests :
        /\ rq[r].op = "send_bulk" /\ resp[r] = 404
        /\ employees # {}
        /\ \A e \in employees : ~e.is_active

(* C7: the bulk task holds the employees that were active when the request
   was handled, each once; its attempts are those employees in order, one
   attempt each, whatever the outcomes; once the body is generated and the
   task is over every one of them has been attempted; the response stays 200. *)
C7_BulkIsolation ==
    \A r \in Requests :
        task[r].kind = "bulk" =>
            LET t == task[r] IN
            /\ resp[r] = 200
            /\ Range(t.to) = rq[r].active
            /\ Cardinality(Range(t.to)) = Len(t.to)
            /\ Len(t.log) <= Len(t.to)
            /\ \A i \in 1..Len(t.log) : t.log[i].id = t.to[i]
            /\ t.gen # "ok" => t.log = <<>>
            /\ (t.gen = "ok" /\ t.stage = "done") => Len(t.log) = Len(t.to)
            /\ (t.stage = "done") = (pc[r] = "done")

(* A bulk task over two or more employees whose first send failed and whose
   other sends were all attempted *)
C7_Witness ==
    \E r \in Requests :
        /\ task[r].kind = "bulk" /\ task[r].stage = "done"
        /\ Len(task[r].to) >= 2
        /\ Len(task[r].log) = Len(task[r].to)
        /\ ~task[r].log[1].ok

(* A welcome task belongs to a create that was answered 201 and whose row was
   committed *)
C8_Scheduled ==
    \A r \in Requests :
        task[r].kind = "welcome" =>
            /\ rq[r].op = "create" /\ resp[r] = 201
            /\ pc[r] \in {"responded", "done"}
            /\ Len(task[r].to) = 1 /\ task[r].to[1] < nextId

(* The commit that schedules the welcome task has put the row in the table,
   and the task runs after the response and touches neither table nor answer *)
C8_Step ==
    \A r \in Requests :
        /\ CommitStep(r) /\ task'[r].kind # "none"
           => /\ task'[r].stage = "queued" /\ resp'[r] = 201
              /\ \E e \in employees' : e.id = task'[r].to[1]
        /\ WelcomeStep(r)
           => /\ employees' = employees
              /\ resp' = resp
              /\ pc[r] = "responded"

(* C8: a welcome task exists only for a create that was answered 201 and whose
   row was committed; the commit that schedules it has put the row in the
   table; the task runs only after the response, and no step of it, failing
   or not, changes the table or the response. *)
C8_WelcomeFailureKeepsCreate == []C8_Scheduled /\ [][C8_Step]_vars

(* The welcome dispatch failed, the row is in the table and the answer is
   still 201 *)
C8_Witness ==
    \E r \in Requests :
        /\ task[r].kind = "welcome" /\ task[r].stage = "done"
        /\ \/ task[r].gen = "failed"
           \/ (task[r].log # <<>> /\ ~task[r].log[1].ok)
        /\ \E e \in employees : e.id = task[r].to[1]
        /\ resp[r] = 201

(* C9: after any sequence of create, update and delete operations no two rows
   of the employee table share a phone_no or an email. *)
C9_UniquePhoneAndEmail ==
    \A e, f \in employees :
        e.id # f.id => e.phone_no # f.phone_no /\ e.email # f.email

(* C10: the ids successful creates of main.py returned are pairwise distinct
   over the whole history, also after deletes. *)
C10_IdsNeverReused ==
    \A i, j \in 1..Len(issued) : i # j => issued[i] # issued[j]

====
